---------------------------- MODULE Spec2Model ----------------------------
(***************************************************************************)
(* Model of beancount-automation: the transaction parser                   *)
(* (src/parser/src/lib.rs, src/beancount-core/src/parser.rs), the GitHub   *)
(* ledger store (src/repository/src/github_store.rs) and the webhook       *)
(* handler (src/api/beancount.rs).                                         *)
(*                                                                         *)
(* Strings are sequences of one-character strings, so that the regular     *)
(* expression, the formatting and the append are computed character by     *)
(* character, as the code computes them.                                   *)
(***************************************************************************)
EXTENDS Integers, Sequences, FiniteSets, TLC

(***************************************************************************)
(* Characters and character classes of the regex crate (ASCII part).       *)
(***************************************************************************)
Digit == {"0", "1", "2", "3", "4", "5", "6", "7", "8", "9"}

Upper == {"A", "B", "C", "D", "E", "F", "G", "H", "I", "J", "K", "L", "M",
          "N", "O", "P", "Q", "R", "S", "T", "U", "V", "W", "X", "Y", "Z"}

Lower == {"a", "b", "c", "d", "e", "f", "g", "h", "i", "j", "k", "l", "m",
          "n", "o", "p", "q", "r", "s", "t", "u", "v", "w", "x", "y", "z"}

\* \w
WordChar == Digit \cup Upper \cup Lower \cup {"_"}

\* \s
Space == {" ", "\t", "\n"}

\* [a-zA-Z:]
AccountChar == Upper \cup Lower \cup {":"}

\* the other characters that occur in the inputs and texts of the model
Punct == {"@", ".", "-", ">", "*", "\"", "'", "!", ","}

Char == WordChar \cup Space \cup AccountChar \cup Punct

\* Option::None of a capture group; a group of this regex never captures
\* the empty string, so the empty sequence stands for None.
None == << >>

\* s[i..j-1]
Sub(s, i, j) == SubSeq(s, i, j - 1)

\* The position after the longest run of characters of class C that starts
\* at position i of s (i itself when there is none).
RunEnd(s, i, C) ==
    IF i > Len(s) THEN i
    ELSE CHOOSE j \in i..(Len(s) + 1) :
            /\ \A k \in i..(j - 1) : s[k] \in C
            /\ (j = Len(s) + 1 \/ s[j] \notin C)

(***************************************************************************)
(* The elements of a pattern.  Each takes the position i where it is to    *)
(* match and gives the position after its match, or 0 when it does not     *)
(* match or when i is 0 (the element before it did not match).             *)
(***************************************************************************)
\* C+, greedy
Plus(s, i, C) ==
    IF i = 0 \/ RunEnd(s, i, C) = i THEN 0 ELSE RunEnd(s, i, C)

\* C*, greedy
Star(s, i, C) == IF i = 0 THEN 0 ELSE RunEnd(s, i, C)

\* the character c
Lit(s, i, c) == IF i = 0 \/ i > Len(s) \/ s[i] # c THEN 0 ELSE i + 1

\* C{n}
Count(s, i, C, n) ==
    IF i = 0 \/ i + n - 1 > Len(s) \/ \E k \in 0..(n - 1) : s[i + k] \notin C
    THEN 0 ELSE i + n

\* \d{4}-\d{2}-\d{2}
DateEnd(s, i) ==
    Count(s, Lit(s, Count(s, Lit(s, Count(s, i, Digit, 4), "-"), Digit, 2),
                 "-"), Digit, 2)

\* the first alternative that matches
OrElse(a, b) == IF a.matched THEN a ELSE b

(***************************************************************************)
(* TRANSACTION_REGEX, matched with the leftmost-first rule of the regex    *)
(* crate: the alternatives of an optional group are tried present first,   *)
(* the repetitions are greedy.  Every repetition of this expression is     *)
(* followed by an element that no character of the repetition matches, so  *)
(* a repetition can only end at the end of its run.                        *)
(***************************************************************************)
NoMatch == [matched |-> FALSE]

NoCaptures ==
    [date |-> None, payee |-> None, narration |-> None, amount |-> None,
     currency |-> None]

\* MatchAccounts, were the arrow between the two aliases optional
MatchAccountsArrowOptional(s, i, caps) ==
    LET f1 == Plus(s, i, Space)
        f2 == Plus(s, f1, AccountChar)
        g  == Plus(s, f2, Space)
        h  == IF Lit(s, Star(s, f2, Space), ">") # 0
              THEN Star(s, Lit(s, Star(s, f2, Space), ">"), Space) ELSE g
        t2 == Plus(s, h, AccountChar)
    IN  IF t2 # 0
        THEN [matched |-> TRUE, date |-> caps.date, payee |-> caps.payee,
              narration |-> caps.narration, amount |-> caps.amount,
              currency |-> caps.currency,
              from |-> Sub(s, f1, f2), to |-> Sub(s, h, t2)]
        ELSE NoMatch

\* \s+(?P<from>[a-zA-Z:]+)\s*>\s*(?P<to>[a-zA-Z:]+) at position i
MatchAccounts(s, i, caps) ==
    LET f1 == Plus(s, i, Space)
        f2 == Plus(s, f1, AccountChar)
        h  == Star(s, Lit(s, Star(s, f2, Space), ">"), Space)
        t2 == Plus(s, h, AccountChar)
    IN  IF t2 # 0
        THEN [matched |-> TRUE, date |-> caps.date, payee |-> caps.payee,
              narration |-> caps.narration, amount |-> caps.amount,
              currency |-> caps.currency,
              from |-> Sub(s, f1, f2), to |-> Sub(s, h, t2)]
        ELSE NoMatch

\* (\s+(?P<currency>[A-Z]{3}))? and the rest, at position i
MatchCurrency(s, i, caps) ==
    LET c1 == Plus(s, i, Space)
        c2 == Count(s, c1, Upper, 3)
    IN  OrElse(IF c2 # 0
               THEN MatchAccounts(s, c2, [caps EXCEPT !.currency = Sub(s, c1, c2)])
               ELSE NoMatch,
               MatchAccounts(s, i, caps))

\* (?P<amount>\d+\.\d+) and the rest, at position i
MatchAmount(s, i, caps) ==
    LET d2 == Plus(s, Lit(s, Plus(s, i, Digit), "."), Digit)
    IN  IF d2 # 0
        THEN MatchCurrency(s, d2, [caps EXCEPT !.amount = Sub(s, i, d2)])
        ELSE NoMatch

\* ((?P<narration>\w+)\s+)? and the rest, at position i
MatchNarration(s, i, caps) ==
    LET n2 == Plus(s, i, WordChar)
        n3 == Plus(s, n2, Space)
    IN  OrElse(IF n3 # 0
               THEN MatchAmount(s, n3, [caps EXCEPT !.narration = Sub(s, i, n2)])
               ELSE NoMatch,
               MatchAmount(s, i, caps))

\* MatchPayee, were exactly one space taken after the payee
MatchPayeeOneSpace(s, i, caps) ==
    LET p2 == Plus(s, Lit(s, i, "@"), WordChar)
        p3 == Lit(s, p2, " ")
    IN  IF p3 # 0
        THEN MatchNarration(s, p3, [caps EXCEPT !.payee = Sub(s, i + 1, p2)])
        ELSE NoMatch

\* @(?P<payee>\w+)\s+ and the rest, at position i
MatchPayee(s, i, caps) ==
    LET p2 == Plus(s, Lit(s, i, "@"), WordChar)
        p3 == Plus(s, p2, Space)
    IN  IF p3 # 0
        THEN MatchNarration(s, p3, [caps EXCEPT !.payee = Sub(s, i + 1, p2)])
        ELSE NoMatch

\* the whole expression, anchored at position i:
\* ((?P<date>\d{4}-\d{2}-\d{2})\s+)? and the rest
MatchAt(s, i) ==
    LET e0 == DateEnd(s, i)
        e1 == Plus(s, e0, Space)
    IN  OrElse(IF e1 # 0
               THEN MatchPayee(s, e1, [NoCaptures EXCEPT !.date = Sub(s, i, e0)])
               ELSE NoMatch,
               MatchPayee(s, i, NoCaptures))

\* the least position of a non-empty set of positions
Leftmost(starts) == CHOOSE i \in starts : \A j \in starts : i <= j

\* TRANSACTION_REGEX.is_match(input)
IsMatch(s) == \E i \in 1..Len(s) : MatchAt(s, i).matched

\* TRANSACTION_REGEX.captures(input): the match that starts leftmost
Captures(s) ==
    IF IsMatch(s)
    THEN MatchAt(s, Leftmost({i \in 1..Len(s) : MatchAt(s, i).matched}))
    ELSE NoMatch

(***************************************************************************)
(* Results: anyhow::Result<T>.  An error is its message: the fixed text of *)
(* the anyhow! call (kind) and the value formatted into it (arg).          *)
(***************************************************************************)
Ok(v) == [ok |-> TRUE, val |-> v]

Err(kind, arg) == [ok |-> FALSE, kind |-> kind, arg |-> arg]

(***************************************************************************)
(* str::parse::<f32> and the {:.2} formatting.  An amount is kept as its   *)
(* decimal value [num, scale] = num / 10^scale with no trailing zero in    *)
(* the fraction; the inputs of the model stay within the seven significant *)
(* digits for which f32 keeps decimal values apart.  A number beyond the  *)
(* range of f32 parses to infinity, which {:.2} formats as "inf".          *)
(***************************************************************************)
DigitVal(c) ==
    CASE c = "0" -> 0 [] c = "1" -> 1 [] c = "2" -> 2 [] c = "3" -> 3
      [] c = "4" -> 4 [] c = "5" -> 5 [] c = "6" -> 6 [] c = "7" -> 7
      [] c = "8" -> 8 [] c = "9" -> 9

DigitChar(n) ==
    CASE n = 0 -> "0" [] n = 1 -> "1" [] n = 2 -> "2" [] n = 3 -> "3"
      [] n = 4 -> "4" [] n = 5 -> "5" [] n = 6 -> "6" [] n = 7 -> "7"
      [] n = 8 -> "8" [] n = 9 -> "9"

RECURSIVE NatOf(_)
NatOf(ds) ==
    IF ds = << >> THEN 0
    ELSE 10 * NatOf(Sub(ds, 1, Len(ds))) + DigitVal(ds[Len(ds)])

RECURSIVE NatToStr(_)
NatToStr(n) ==
    IF n < 10 THEN <<DigitChar(n)>>
    ELSE NatToStr(n \div 10) \o <<DigitChar(n % 10)>>

RECURSIVE Pow10(_)
Pow10(k) == IF k = 0 THEN 1 ELSE 10 * Pow10(k - 1)

RECURSIVE Normalize(_)
Normalize(a) ==
    IF a.scale > 0 /\ a.num % 10 = 0
    THEN Normalize([num |-> a.num \div 10, scale |-> a.scale - 1])
    ELSE a

\* f32::INFINITY
Infinity == [inf |-> TRUE]

\* the number of digits of the integer part of f32::MAX, 3.4028235e38:
\* a number with more digits is beyond the range of f32
F32MaxDigits == 39

\* the digits ds without their leading zeros
RECURSIVE Significant(_)
Significant(ds) ==
    IF ds # << >> /\ ds[1] = "0" THEN Significant(Tail(ds)) ELSE ds

\* "12.40".parse::<f32>(): digits, optionally a point and digits
ParseF32(lex) ==
    LET dots == {i \in 1..Len(lex) : lex[i] = "."}
        dot  == IF dots = {} THEN Len(lex) + 1 ELSE CHOOSE i \in dots : TRUE
        int  == Sub(lex, 1, dot)
        frac == Sub(lex, dot + 1, Len(lex) + 1)
    IN  IF Len(Significant(int)) > F32MaxDigits THEN Infinity
        ELSE Normalize([num |-> NatOf(int \o frac), scale |-> Len(frac)])

\* format!("{:.2}", amount): rounded to two decimals (ties to even)
Fmt2(a) ==
    IF a = Infinity THEN <<"i", "n", "f">> ELSE
    LET hundredths ==
            IF a.scale <= 2 THEN a.num * Pow10(2 - a.scale)
            ELSE LET p == Pow10(a.scale - 2)
                     q == a.num \div p
                     r == a.num % p
                 IN  IF 2 * r > p \/ (2 * r = p /\ q % 2 = 1) THEN q + 1 ELSE q
        cents == hundredths % 100
    IN  NatToStr(hundredths \div 100)
            \o <<".", DigitChar(cents \div 10), DigitChar(cents % 10)>>

(***************************************************************************)
(* Transaction and its renderings.                                         *)
(***************************************************************************)
Transaction(date, payee, narration, amount, currency, from, to) ==
    [date |-> date, payee |-> payee, narration |-> narration,
     amount |-> amount, currency |-> currency,
     from_account |-> from, to_account |-> to]

\* Transaction::year: self.date.split('-').next()
Year(t) == Sub(t.date, 1, RunEnd(t.date, 1, Char \ {"-"}))

\* impl From<Transaction> for String
LedgerText(t) ==
    t.date \o <<" ", "*", " ", "\"">> \o t.payee \o <<"\"", " ", "\"">>
      \o t.narration \o <<"\"", "\n", " ", " ">>
      \o t.from_account \o <<" ", " ", " ", " ", " ", " ", " ", " ", "-">>
      \o Fmt2(t.amount) \o <<" ">> \o t.currency \o <<"\n", " ", " ">>
      \o t.to_account \o <<" ", " ", " ", " ", " ", " ", " ", " ">>
      \o Fmt2(t.amount) \o <<" ">> \o t.currency \o <<"\n">>

(***************************************************************************)
(* Parser (src/parser/src/lib.rs): the regex parser.                       *)
(***************************************************************************)
\* the literal "AUD" of parse_caps
LiteralAUD == <<"A", "U", "D">>

\* Parser::parse_account
ParseAccount(settings, matched) ==
    IF matched \in DOMAIN settings.accounts
    THEN Ok(settings.accounts[matched])
    ELSE Err("account {} doesn't exist in current setting", matched)

\* Parser::parse_caps, lines 94 to 112: the two accounts, from first
ParseCapsAccounts(caps, now, from, to) ==
    IF ~from.ok THEN from
    ELSE IF ~to.ok THEN to
    ELSE Ok(Transaction(
            IF caps.date = None THEN now ELSE caps.date,
            caps.payee,
            IF caps.narration = None THEN << >> ELSE caps.narration,
            ParseF32(caps.amount),
            IF caps.currency = None THEN LiteralAUD ELSE caps.currency,
            from.val, to.val))

\* Parser::parse_caps; now is Local::now().format("%Y-%m-%d")
ParseCaps(settings, caps, now) ==
    ParseCapsAccounts(caps, now, ParseAccount(settings, caps.from),
                      ParseAccount(settings, caps.to))

\* Parser::parse, lines 63 to 66: match TRANSACTION_REGEX.captures(input)
ParseCaptured(settings, caps, now) ==
    IF ~caps.matched THEN Err("Invalid input.", << >>)
    ELSE ParseCaps(settings, caps, now)

\* Parser::parse
Parse(settings, line, now) ==
    IF ~IsMatch(line)
    THEN Err("Invalid input format, please follow examples here", << >>)
    ELSE ParseCaptured(settings, Captures(line), now)

(***************************************************************************)
(* BeancountParser (src/beancount-core/src/parser.rs): the parser the      *)
(* handler calls.  Its grammar file, transaction.pest, is not among the    *)
(* sources; the grammar below is the strict positional grammar of the      *)
(* specification ([date] @payee [narration] amount [currency] from > to,   *)
(* whitespace tolerant, the whole line), with the amount and narration     *)
(* shapes its tests show (an integer amount, a narration of several        *)
(* words).  The loop over the pairs is the code's.                         *)
(***************************************************************************)
\* amount: \d+ or \d+\.\d+, a whole token
PegAmount(s, i) ==
    LET d1 == Plus(s, i, Digit)
        e  == IF Plus(s, Lit(s, d1, "."), Digit) # 0
              THEN Plus(s, Lit(s, d1, "."), Digit) ELSE d1
    IN  IF e # 0 /\ (e > Len(s) \/ s[e] \in Space) THEN e ELSE 0

\* narration: the words from position i up to the first amount token;
\* last is the end of the previous word
RECURSIVE PegNarrationEnd(_, _, _)
PegNarrationEnd(s, i, last) ==
    IF PegAmount(s, i) = 0 /\ Plus(s, Plus(s, i, WordChar), Space) # 0
    THEN PegNarrationEnd(s, Plus(s, Plus(s, i, WordChar), Space),
                         Plus(s, i, WordChar))
    ELSE last

PegNarration(s, i) == IF i = 0 THEN 0 ELSE PegNarrationEnd(s, i, i)

\* the first position that is not 0
OrPos(a, b) == IF a # 0 THEN a ELSE b

\* transaction = SOI date? payee narration? amount currency?
\*               from_account ">" to_account EOI
PegCaptures(s) ==
    LET i0 == Star(s, 1, Space)
        i1 == OrPos(Plus(s, DateEnd(s, i0), Space), i0)
        p2 == Plus(s, Lit(s, i1, "@"), WordChar)
        p3 == Plus(s, p2, Space)
        n2 == PegNarration(s, p3)
        n3 == Star(s, n2, Space)
        a2 == PegAmount(s, n3)
        c1 == Plus(s, a2, Space)
        f1 == OrPos(Plus(s, Count(s, c1, Upper, 3), Space), c1)
        f2 == Plus(s, f1, AccountChar)
        h  == Star(s, Lit(s, Star(s, f2, Space), ">"), Space)
        t2 == Plus(s, h, AccountChar)
    IN  IF Star(s, t2, Space) = Len(s) + 1
        THEN [matched |-> TRUE,
              date |-> IF i1 # i0 THEN Sub(s, i0, i0 + 10) ELSE None,
              payee |-> Sub(s, i1, p2),
              narration |-> Sub(s, p3, n2),
              amount |-> Sub(s, n3, a2),
              currency |-> IF f1 # c1 THEN Sub(s, c1, c1 + 3) ELSE None,
              from |-> Sub(s, f1, f2), to |-> Sub(s, h, t2)]
        ELSE NoMatch

\* str::trim_matches(c)
RECURSIVE TrimMatches(_, _)
TrimMatches(s, c) ==
    IF s # << >> /\ s[1] = c THEN TrimMatches(Tail(s), c)
    ELSE IF s # << >> /\ s[Len(s)] = c THEN TrimMatches(Sub(s, 1, Len(s)), c)
    ELSE s

\* Transaction::default; now is Local::now().format("%Y-%m-%d")
TransactionDefault(now) ==
    Transaction(now, << >>, << >>, [num |-> 0, scale |-> 0],
                <<"A", "U", "D">>, << >>, << >>)

\* BeancountParser::parse_account
BeancountParseAccount(settings, matched) ==
    IF matched \in DOMAIN settings.accounts
    THEN Ok(settings.accounts[matched])
    ELSE Err("account {} doesn't exist in current setting", matched)

\* BeancountParser::parse, lines 70 to 88: the pairs of the match are
\* assigned to the default transaction in input order
FromPairs(settings, caps, d, from, to) ==
    IF ~from.ok THEN from
    ELSE IF ~to.ok THEN to
    ELSE Ok(Transaction(
            IF caps.date = None THEN d.date ELSE caps.date,
            TrimMatches(caps.payee, "@"),
            IF caps.narration = None THEN d.narration ELSE caps.narration,
            ParseF32(caps.amount),
            IF caps.currency = None THEN d.currency ELSE caps.currency,
            from.val, to.val))

\* BeancountParser::parse, line 69: TransactionParser::parse(..)?
BeancountParsePairs(settings, caps, now) ==
    IF ~caps.matched THEN Err("pest error", << >>)
    ELSE FromPairs(settings, caps, TransactionDefault(now),
                   BeancountParseAccount(settings, caps.from),
                   BeancountParseAccount(settings, caps.to))

\* BeancountParser::parse
BeancountParse(settings, line, now) ==
    BeancountParsePairs(settings, PegCaptures(line), now)

(***************************************************************************)
(* The texts, settings and dates the model runs on: those of the tests of  *)
(* the repository, and variations of them.                                 *)
(***************************************************************************)
Spaces(n) == [i \in 1..n |-> " "]

RECURSIVE JoinTokens(_, _)
JoinTokens(toks, sep) ==
    IF toks = << >> THEN << >>
    ELSE IF Len(toks) = 1 THEN toks[1]
    ELSE toks[1] \o sep \o JoinTokens(Tail(toks), sep)

Words(toks) == JoinTokens(toks, Spaces(1))

Date2021 == <<"2", "0", "2", "1", "-", "0", "9", "-", "0", "8">>

Date2022 == <<"2", "0", "2", "2", "-", "0", "8", "-", "1", "4">>

KFC == <<"K", "F", "C">>

Hamburger == <<"h", "a", "m", "b", "u", "r", "g", "e", "r">>

Amount1240 == <<"1", "2", ".", "4", "0">>

Amount337 == <<"3", "3", ".", "7">>

AUD == <<"A", "U", "D">>

USD == <<"U", "S", "D">>

Cba == <<"c", "b", "a">>

Food == <<"f", "o", "o", "d">>

Amex == <<"a", "m", "e", "x">>

\* aliases that no settings of the model map
Abc == <<"a", "b", "c">>

Home == <<"h", "o", "m", "e">>

CbaUpper == <<"C", "b", "a">>

\* an alias with a digit, mapped by SettingsTwoCards
Cba2 == <<"c", "b", "a", "2">>

AssetsCba == <<"A", "s", "s", "e", "t", "s", ":", "C", "B", "A">>

AssetsCba2 == <<"A", "s", "s", "e", "t", "s", ":", "C", "B", "A", "2">>

ExpenseFood == <<"E", "x", "p", "e", "n", "s", "e", ":", "F", "o", "o", "d">>

LiabilitiesAmex == <<"L", "i", "a", "b", ":", "A", "M", "E", "X">>

\* Settings { currency, accounts }
SettingsAud ==
    [currency |-> AUD,
     accounts |-> (Cba :> AssetsCba) @@ (Amex :> LiabilitiesAmex)
                    @@ (Food :> ExpenseFood)]

SettingsTwoCards ==
    [currency |-> USD,
     accounts |-> (Cba :> AssetsCba) @@ (Cba2 :> AssetsCba2)
                    @@ (Food :> ExpenseFood)]

SettingsSet == {SettingsAud, SettingsTwoCards}

\* the processing dates, Local::now().format("%Y-%m-%d")
Days == {Date2022}

TextDated == Words(<<Date2021, <<"@">> \o KFC, Hamburger, Amount1240, AUD,
                     Cba, <<">">>, Food>>)

TextUndated == Words(<<<<"@">> \o KFC, Amount337, Cba, <<">">>, Food>>)

TextInvalid == Words(<<<<"I">>, <<"a", "m">>, <<"t", "e", "s", "t">>>>)

TextUnknown == Words(<<Date2022, <<"@">> \o KFC, Amount337, Abc,
                       <<">">>, Home>>)

(***************************************************************************)
(* The webhook request: bot_message::telegram::Update.                     *)
(***************************************************************************)
NoMessage == [present |-> FALSE]

Message(id, text) ==
    [present |-> TRUE, message_id |-> id, chat_id |-> 1, text |-> text]

Update(m, e) == [json |-> TRUE, message |-> m, edited_message |-> e]

\* a body serde_json cannot deserialize as an Update
BadBody == [json |-> FALSE]

Requests ==
    {BadBody, Update(NoMessage, NoMessage),
     Update(Message(7, TextDated), NoMessage),
     Update(Message(9, TextInvalid), NoMessage),
     Update(Message(10, TextUnknown), NoMessage),
     Update(NoMessage, Message(276, TextUndated))}

(***************************************************************************)
(* The remote content store (the GitHub contents API), seen from the       *)
(* client: a file is absent or holds bytes; its version tag (sha) is the   *)
(* hash of its content; the content travels base64-encoded.                *)
(***************************************************************************)
\* a byte sequence that is not UTF-8, and what from_utf8_lossy makes of it
InvalidByte == "<FF>"

ReplacementChar == "<U+FFFD>"

\* the blob hash GitHub names a content by
Sha(bytes) == [blob |-> bytes]

\* base64 as GitHub sends it: broken into lines by "\n"
GithubBase64(bytes) == [b64 |-> bytes, newlines |-> bytes # << >>]

\* str::replace('\n', "") on a base64 text
StripNewlines(e) == [e EXCEPT !.newlines = FALSE]

\* base64::decode
Base64Decode(e) ==
    IF e.newlines THEN Err("base64 decode error", << >>) ELSE Ok(e.b64)

\* base64::encode of a String (its UTF-8 bytes)
Base64Encode(text) == [b64 |-> text, newlines |-> FALSE]

\* String::from_utf8_lossy
Utf8Lossy(bytes) ==
    [i \in 1..Len(bytes) |->
        IF bytes[i] = InvalidByte THEN ReplacementChar ELSE bytes[i]]

Absent == [exists |-> FALSE, content |-> << >>]

File(bytes) == [exists |-> TRUE, content |-> bytes]

OldEntry == <<";", " ", "o", "l", "d", "\n">>


\* format!("{}.bean", transaction.year())
PathOf(t) == Year(t) \o <<".", "b", "e", "a", "n">>

Paths == {<<"2", "0", "2", "1">> \o <<".", "b", "e", "a", "n">>,
          <<"2", "0", "2", "2">> \o <<".", "b", "e", "a", "n">>}

\* what the remote store holds before the calls of the model: the file of
\* the past year is absent or holds an entry, the file of this year is
\* absent or holds bytes that are not UTF-8
InitialFiles ==
    {[p \in Paths |-> IF p[4] = "1" THEN past ELSE present] :
        past \in {Absent, File(OldEntry)},
        present \in {Absent, File(<<InvalidByte, "\n">>)}}

(***************************************************************************)
(* State.                                                                  *)
(***************************************************************************)
\* the calls of the handler that run concurrently
NumCalls == 2

Calls == 1..NumCalls

VARIABLES
    settings,        \* the Settings the parsers are built with
    today,           \* the processing date
    files,           \* the remote store: path -> file
    pc,              \* where each call of the handler is
    request,         \* the request each call serves
    transaction,     \* the Transaction each call parsed
    store,           \* whether the call constructed its GithubStore
    update_request,  \* the UpdateRequest save built
    requests,        \* the requests each call sent to the remote store
    save_result,     \* what save returned
    response,        \* what the handler returned
    shape,           \* the fields and layout of the parser's input
    input,           \* the parser's input line
    result           \* what Parser::parse returned for it

vars == <<settings, today, files, pc, request, transaction, store,
          update_request, requests, save_result, response,
          shape, input, result>>

parserVars == <<shape, input, result>>

NotRun == [ok |-> FALSE, kind |-> "not run", arg |-> << >>]

NoTransaction == TransactionDefault(<< >>)

NoUpdateRequest == [content |-> Base64Encode(<< >>), sha |-> Sha(<< >>)]

NoResponse == [kind |-> "none"]

(***************************************************************************)
(* The handler (src/api/beancount.rs).                                     *)
(***************************************************************************)
\* update.message, else update.edited_message
MessageOf(r) == IF r.message.present THEN r.message ELSE r.edited_message

\* a response whose body is a plain text
PlainResponse(text) == [kind |-> "plain", text |-> text]

\* the closure ok_response: a sendMessage reply to the message
OkResponse(message, text) ==
    [kind |-> "sendMessage", chat_id |-> message.chat_id, text |-> text,
     reply_to_message_id |-> message.message_id]

\* Err(VercelError::new(..))
VercelError(e) == [kind |-> "error", error |-> e]

\* format!("<warning sign>\n====...\nFailed to parse input: {}", e)
ParseFailureText(e) ==
    [marker |-> "warning", banner |-> Spaces(0) \o [i \in 1..30 |-> "="],
     message |-> "Failed to parse input: {}", error |-> e]

\* the handler returns rsp; the call is over
Return(c, rsp) ==
    /\ response' = [response EXCEPT ![c] = rsp]
    /\ pc' = [pc EXCEPT ![c] = "done"]

\* Parsed, were a line that does not parse booked as the default
\* transaction
ParsedAnyway(c, message, parsed) ==
    /\ transaction' = [transaction EXCEPT ![c] =
                          IF parsed.ok THEN parsed.val
                          ELSE TransactionDefault(today)]
    /\ pc' = [pc EXCEPT ![c] = "new_store"]
    /\ UNCHANGED response

\* handler, lines 65 to 76: match parser.parse(&message.text)
Parsed(c, message, parsed) ==
    IF ~parsed.ok
    THEN /\ Return(c, OkResponse(message, ParseFailureText(parsed)))
         /\ UNCHANGED transaction
    ELSE /\ transaction' = [transaction EXCEPT ![c] = parsed.val]
         /\ pc' = [pc EXCEPT ![c] = "new_store"]
         /\ UNCHANGED response

\* handler, from the request body to the parsed transaction
HandleRequest(c) ==
    /\ pc[c] = "handler"
    /\ \E r \in Requests, config \in BOOLEAN :
        /\ request' = [request EXCEPT ![c] = r]
        /\ IF ~r.json
           THEN /\ Return(c, PlainResponse("Failed to deserialize request body"))
                /\ UNCHANGED transaction
           ELSE IF ~r.message.present /\ ~r.edited_message.present
           THEN /\ Return(c, PlainResponse(
                        "Could not get message or edited_message from request"))
                /\ UNCHANGED transaction
           ELSE IF ~config
           THEN /\ Return(c, VercelError(Err("settings", << >>)))
                /\ UNCHANGED transaction
           ELSE Parsed(c, MessageOf(r),
                       BeancountParse(settings, MessageOf(r).text, today))
    /\ UNCHANGED <<settings, today, files, store, update_request, requests,
                   save_result, parserVars>>

\* GithubStore::new: the three environment variables, then the client
NewStore(c) ==
    /\ pc[c] = "new_store"
    /\ \E env \in BOOLEAN :
        IF env
        THEN /\ store' = [store EXCEPT ![c] = TRUE]
             /\ pc' = [pc EXCEPT ![c] = "get"]
             /\ UNCHANGED response
        ELSE /\ Return(c, VercelError(Err("Failed to create github store: {}",
                                          << >>)))
             /\ UNCHANGED store
    /\ UNCHANGED <<settings, today, files, request, transaction,
                   update_request, requests, save_result, parserVars>>

(***************************************************************************)
(* GithubStore::save (src/repository/src/github_store.rs).  Each request   *)
(* to the remote store is one step; the remote store answers it in the     *)
(* same step.  Between two requests of a call the other calls may run.     *)
(***************************************************************************)
\* the JSON body of a 200 answer to GET: the FileContent of the file
FileBody(f) ==
    [is_file |-> TRUE, content |-> GithubBase64(f.content),
     sha |-> Sha(f.content)]

\* a body that does not deserialize as a FileContent
OtherBody == [is_file |-> FALSE, content |-> GithubBase64(<< >>),
              sha |-> Sha(<< >>)]

\* one request as the call sent it and as the remote store answered it:
\* sha is the tag a PUT carried or a GET returned, sent the content a
\* CREATE or PUT carried, prior the content the PUT found in the file
Exchange(op, path, status, sha, sent, prior) ==
    [op |-> op, path |-> path, status |-> status, sha |-> sha,
     sent |-> sent, prior |-> prior]

NoSha == [blob |-> <<"none">>]

\* the statuses the remote store can answer a GET of file f with
GetStatuses(f) ==
    (IF f.exists THEN {"200"} ELSE {"404"}) \cup {"500", "send error"}

\* the bodies a 200 answer to a GET of file f can carry
GetBodies(f) == {FileBody(f), OtherBody}

\* the statuses the remote store can answer a CREATE of file f with
CreateStatuses(f) ==
    (IF f.exists THEN {"422"} ELSE {"201"}) \cup {"500", "send error"}

\* the statuses the remote store can answer a PUT with: the write is
\* accepted only when the tag is the tag of the file's current content
PutStatuses(f, sha) ==
    (IF f.exists /\ sha = Sha(f.content) THEN {"200"} ELSE {"409"})
        \cup {"500", "send error"}

\* save, lines 99 to 109: from the body of the GET to the UpdateRequest
BuildUpdateRequest(body, t) ==
    LET decoded_value == Base64Decode(StripNewlines(body.content))
        content == Utf8Lossy(decoded_value.val)
        transaction_text == LedgerText(t)
    IN  IF ~body.is_file THEN Err("error decoding response body", << >>)
        ELSE IF ~decoded_value.ok THEN decoded_value
        ELSE Ok([content |-> Base64Encode(content \o <<"\n">> \o transaction_text),
                 sha |-> body.sha])

\* save, line 120: the value of a successful save
SaveValue(t) == LedgerText(t)

\* save returns res to the handler, which returns its response
SaveReturns(c, res) ==
    /\ save_result' = [save_result EXCEPT ![c] = res]
    /\ Return(c, IF res.ok THEN OkResponse(MessageOf(request[c]), res.val)
                 ELSE VercelError(res))

Send(c, exchange) ==
    requests' = [requests EXCEPT ![c] = Append(@, exchange)]

\* the body of a GET was read: build the UpdateRequest, or fail
AfterGet(c, body) ==
    LET built == BuildUpdateRequest(body, transaction[c])
    IN  IF built.ok
        THEN /\ update_request' = [update_request EXCEPT ![c] = built.val]
             /\ pc' = [pc EXCEPT ![c] = "put"]
             /\ UNCHANGED <<save_result, response>>
        ELSE /\ SaveReturns(c, built)
             /\ UNCHANGED update_request

\* SaveGet, were every answer that is not a found file taken as a missing
\* file
SaveGetLenient(c) ==
    /\ pc[c] = "get"
    /\ LET path == PathOf(transaction[c])
           f    == files[path]
       IN  \E status \in GetStatuses(f), body \in GetBodies(f) :
            /\ Send(c, Exchange("GET", path, status,
                        IF status = "200" /\ body.is_file THEN body.sha ELSE NoSha,
                        << >>, << >>))
            /\ CASE status = "200" -> AfterGet(c, body)
                 [] status = "send error" ->
                        /\ SaveReturns(c, Err("error sending request", << >>))
                        /\ UNCHANGED update_request
                 [] OTHER ->
                        /\ pc' = [pc EXCEPT ![c] = "create"]
                        /\ UNCHANGED <<update_request, save_result, response>>
    /\ UNCHANGED <<settings, today, files, request, transaction, store,
                   parserVars>>

\* save, lines 84 to 97: the first GET
SaveGet(c) ==
    /\ pc[c] = "get"
    /\ LET path == PathOf(transaction[c])
           f    == files[path]
       IN  \E status \in GetStatuses(f), body \in GetBodies(f) :
            /\ Send(c, Exchange("GET", path, status,
                        IF status = "200" /\ body.is_file THEN body.sha ELSE NoSha,
                        << >>, << >>))
            /\ CASE status = "200" -> AfterGet(c, body)
                 [] status = "404" ->
                        /\ pc' = [pc EXCEPT ![c] = "create"]
                        /\ UNCHANGED <<update_request, save_result, response>>
                 [] status = "send error" ->
                        /\ SaveReturns(c, Err("error sending request", << >>))
                        /\ UNCHANGED update_request
                 [] OTHER ->
                        /\ SaveReturns(c, Err("Failed to get file content", << >>))
                        /\ UNCHANGED update_request
    /\ UNCHANGED <<settings, today, files, request, transaction, store,
                   parserVars>>

\* SaveCreate, were the PUT built from the empty content just created
\* and not from a second GET
SaveCreateNoRefetch(c) ==
    /\ pc[c] = "create"
    /\ LET path == PathOf(transaction[c])
           f    == files[path]
       IN  \E status \in CreateStatuses(f) :
            /\ Send(c, Exchange("CREATE", path, status, NoSha, << >>, << >>))
            /\ files' = IF status = "201"
                        THEN [files EXCEPT ![path] = File(<< >>)]
                        ELSE files
            /\ CASE status \in {"201", "200"} ->
                        /\ pc' = [pc EXCEPT ![c] = "put"]
                        /\ update_request' =
                             [update_request EXCEPT ![c] =
                                 [content |-> Base64Encode(
                                      <<"\n">> \o LedgerText(transaction[c])),
                                  sha |-> NoSha]]
                        /\ UNCHANGED <<save_result, response>>
                 [] status = "send error" ->
                        /\ SaveReturns(c, Err("error sending request", << >>))
                        /\ UNCHANGED update_request
                 [] OTHER ->
                        /\ SaveReturns(c, Err("Failed to create new file {}", path))
                        /\ UNCHANGED update_request
    /\ UNCHANGED <<settings, today, request, transaction, store, parserVars>>

\* create_file, called from save line 88
SaveCreate(c) ==
    /\ pc[c] = "create"
    /\ LET path == PathOf(transaction[c])
           f    == files[path]
       IN  \E status \in CreateStatuses(f) :
            /\ Send(c, Exchange("CREATE", path, status, NoSha, << >>, << >>))
            /\ files' = IF status = "201"
                        THEN [files EXCEPT ![path] = File(<< >>)]
                        ELSE files
            /\ CASE status \in {"201", "200"} ->
                        /\ pc' = [pc EXCEPT ![c] = "get again"]
                        /\ UNCHANGED <<save_result, response>>
                 [] status = "send error" ->
                        SaveReturns(c, Err("error sending request", << >>))
                 [] OTHER ->
                        SaveReturns(c, Err("Failed to create new file {}", path))
    /\ UNCHANGED <<settings, today, request, transaction, store,
                   update_request, parserVars>>

\* save, line 89: the GET after the file was created; its status is not
\* looked at, a body that is no FileContent fails in json() at line 99
SaveGetAgain(c) ==
    /\ pc[c] = "get again"
    /\ LET path == PathOf(transaction[c])
           f    == files[path]
       IN  \E status \in GetStatuses(f), body \in GetBodies(f) :
            /\ Send(c, Exchange("GET", path, status,
                        IF status = "200" /\ body.is_file THEN body.sha ELSE NoSha,
                        << >>, << >>))
            /\ CASE status = "200" -> AfterGet(c, body)
                 [] status = "send error" ->
                        /\ SaveReturns(c, Err("error sending request", << >>))
                        /\ UNCHANGED update_request
                 [] OTHER -> AfterGet(c, OtherBody)
    /\ UNCHANGED <<settings, today, files, request, transaction, store,
                   parserVars>>

\* SaveOutcome, were 201 the only status of the PUT taken as success
SaveOutcomeCreatedOnly(status, t) ==
    CASE status = "201" -> Ok(SaveValue(t))
      [] status = "send error" -> Err("error sending request", << >>)
      [] OTHER -> Err("Failed to save transaction!", << >>)

\* save, lines 111 to 131: what save returns for the answer to the PUT
SaveOutcome(status, t) ==
    CASE status \in {"200", "201"} -> Ok(SaveValue(t))
      [] status = "send error" -> Err("error sending request", << >>)
      [] OTHER -> Err("Failed to save transaction!", << >>)

\* SavePut, were a PUT the remote store rejects as stale tried again from
\* the GET
SavePutRetrying(c) ==
    /\ pc[c] = "put"
    /\ LET path == PathOf(transaction[c])
           f    == files[path]
           req  == update_request[c]
       IN  \E status \in PutStatuses(f, req.sha) :
            /\ Send(c, Exchange("PUT", path, status, req.sha,
                                req.content.b64, f.content))
            /\ files' = IF status = "200"
                        THEN [files EXCEPT ![path] = File(req.content.b64)]
                        ELSE files
            /\ IF status = "409"
               THEN /\ pc' = [pc EXCEPT ![c] = "get"]
                    /\ UNCHANGED <<save_result, response>>
               ELSE SaveReturns(c, SaveOutcome(status, transaction[c]))
    /\ UNCHANGED <<settings, today, request, transaction, store,
                   update_request, parserVars>>

\* save, lines 111 to 131: the PUT and what save returns
SavePut(c) ==
    /\ pc[c] = "put"
    /\ LET path == PathOf(transaction[c])
           f    == files[path]
           req  == update_request[c]
       IN  \E status \in PutStatuses(f, req.sha) :
            /\ Send(c, Exchange("PUT", path, status, req.sha,
                                req.content.b64, f.content))
            /\ files' = IF status = "200"
                        THEN [files EXCEPT ![path] = File(req.content.b64)]
                        ELSE files
            /\ SaveReturns(c, SaveOutcome(status, transaction[c]))
    /\ UNCHANGED <<settings, today, request, transaction, store,
                   update_request, parserVars>>

(***************************************************************************)
(* The specification of the handler and the store.                         *)
(***************************************************************************)
Init ==
    /\ settings = SettingsAud
    /\ today \in Days
    /\ files \in InitialFiles
    /\ pc = [c \in Calls |-> "handler"]
    /\ request = [c \in Calls |-> BadBody]
    /\ transaction = [c \in Calls |-> NoTransaction]
    /\ store = [c \in Calls |-> FALSE]
    /\ update_request = [c \in Calls |-> NoUpdateRequest]
    /\ requests = [c \in Calls |-> << >>]
    /\ save_result = [c \in Calls |-> NotRun]
    /\ response = [c \in Calls |-> NoResponse]
    /\ shape = << >>
    /\ input = << >>
    /\ result = NotRun

Next ==
    \E c \in Calls :
        \/ HandleRequest(c)
        \/ NewStore(c)
        \/ SaveGet(c)
        \/ SaveCreate(c)
        \/ SaveGetAgain(c)
        \/ SavePut(c)

Spec == Init /\ [][Next]_vars

(***************************************************************************)
(* Properties of the handler and the store, checked under Spec.            *)
(***************************************************************************)
\* the positions in the log of call c of its requests of kind op
Sent(c, op) == {i \in DOMAIN requests[c] : requests[c][i].op = op}

\* the statuses save takes as success of a CREATE or a PUT
Accepted == {"200", "201"}

\* the last request call c sent
LastExchange(c) == requests[c][Len(requests[c])]

\* save returned an error to call c
SaveFailed(c) ==
    pc[c] = "done" /\ save_result[c] # NotRun /\ ~save_result[c].ok

\* the text of the message call c serves
TextOf(c) == MessageOf(request[c]).text

\* call c serves a request that carries a message
HasMessage(c) ==
    /\ pc[c] # "handler"
    /\ request[c].json
    /\ request[c].message.present \/ request[c].edited_message.present

\* C1 (additive append): when save returns success, the content its PUT
\* wrote is exactly the content the file held at the time of the PUT, one
\* line feed, and the ledger text of the transaction.
C1_AdditiveAppend ==
    \A c \in Calls :
        save_result[c].ok =>
            /\ LastExchange(c).op = "PUT"
            /\ LastExchange(c).sent =
                 LastExchange(c).prior \o <<"\n">> \o LedgerText(transaction[c])

\* C2 (conflict is distinguishable): the error save returns when the remote
\* store rejects the PUT because the version tag is stale (409) differs
\* from the error it returns for another non-success status of the PUT.
C2_ConflictDistinguishable ==
    \A c \in Calls :
        (requests[c] # << >> /\ LastExchange(c).op = "PUT"
           /\ LastExchange(c).status = "409")
        => save_result[c] # SaveOutcome("500", transaction[c])

\* C3 (no retries): one save sends at most one PUT, at most one CREATE and
\* at most two GETs, and a PUT the remote store rejected is the last
\* request of the save, which has returned an error.
C3_NoRetries ==
    \A c \in Calls :
        /\ Cardinality(Sent(c, "PUT")) <= 1
        /\ Cardinality(Sent(c, "CREATE")) <= 1
        /\ Cardinality(Sent(c, "GET")) <= 2
        /\ \A i \in Sent(c, "PUT") :
              requests[c][i].status \notin Accepted
              => i = Len(requests[c]) /\ SaveFailed(c)

\* a save that created the file, read it again and had its PUT rejected as
\* stale
C3_Witness ==
    \E c \in Calls :
        /\ Len(requests[c]) = 4
        /\ Cardinality(Sent(c, "GET")) = 2
        /\ LastExchange(c).op = "PUT"
        /\ LastExchange(c).status = "409"
        /\ SaveFailed(c)

\* C4 (create then refetch): when the first GET answers not-found, the
\* save sends one CREATE of an empty file at the same path, then a second
\* GET of that path, then at most the PUT; and every PUT carries the
\* version tag the GET before it returned.
C4_CreateThenRefetch ==
    \A c \in Calls :
        LET log == requests[c]
        IN  /\ (log # << >> /\ log[1].op = "GET" /\ log[1].status = "404") =>
                /\ Len(log) <= 4
                /\ pc[c] = "done" => Len(log) >= 2
                /\ Len(log) >= 2 =>
                      /\ log[2].op = "CREATE"
                      /\ log[2].path = log[1].path
                      /\ log[2].sent = << >>
                      /\ (log[2].status \in Accepted /\ pc[c] = "done")
                            => Len(log) >= 3
                /\ Len(log) >= 3 =>
                      /\ log[3].op = "GET"
                      /\ log[3].path = log[1].path
                /\ Len(log) >= 4 => log[4].op = "PUT"
            /\ \A i \in Sent(c, "PUT") :
                  /\ i > 1
                  /\ log[i - 1].op = "GET"
                  /\ log[i].path = log[i - 1].path
                  /\ log[i].sha = log[i - 1].sha

\* a save that found no file, created it, read it again and wrote it with
\* the tag of the empty file
C4_Witness ==
    \E c \in Calls :
        /\ Len(requests[c]) = 4
        /\ requests[c][1].status = "404"
        /\ requests[c][2].status = "201"
        /\ requests[c][4].sha = Sha(<< >>)
        /\ requests[c][4].status = "200"
        /\ save_result[c].ok

\* C5 (fetch and create failures are fatal): when the first GET answers
\* anything but found or not-found, it is the only request of the save,
\* which has returned an error; and a CREATE the remote store rejected is
\* the last request of the save, which has returned an error.
C5_FetchCreateFailuresFatal ==
    \A c \in Calls :
        /\ (requests[c] # << >> /\ requests[c][1].status \notin {"200", "404"})
              => Len(requests[c]) = 1 /\ SaveFailed(c)
        /\ \A i \in Sent(c, "CREATE") :
              requests[c][i].status \notin Accepted
              => i = Len(requests[c]) /\ SaveFailed(c)

\* one save whose first GET was answered 500, and one whose CREATE was
\* rejected
C5_Witness ==
    /\ \E c \in Calls :
          /\ Len(requests[c]) = 1
          /\ requests[c][1].status = "500"
          /\ SaveFailed(c)
    /\ \E c \in Calls :
          /\ Len(requests[c]) = 2
          /\ requests[c][2].op = "CREATE"
          /\ requests[c][2].status \notin Accepted
          /\ SaveFailed(c)

\* what C6 asks of a call c that serves a message, parsed being what the
\* parser returns for its text
ParseBeforeStore(c, parsed) ==
    IF parsed.ok THEN TRUE
    ELSE /\ ~store[c]
         /\ requests[c] = << >>
         /\ pc[c] = "done"
         /\ \/ response[c].kind = "error"
            \/ response[c] = OkResponse(MessageOf(request[c]),
                                        ParseFailureText(parsed))

\* C6 (parse before any store access): a call whose message does not parse
\* constructs no store and sends no request, and replies with the parse
\* failure (or fails on its settings); so a call that constructed a store
\* or sent a request serves a message that parsed.
C6_ParseBeforeStore ==
    \A c \in Calls :
        IF HasMessage(c)
        THEN ParseBeforeStore(c, BeancountParse(settings, TextOf(c), today))
        ELSE ~store[c] /\ requests[c] = << >>

\* a call that replied with the parse failure, next to a call that parsed
\* its message and sent a request
C6_Witness ==
    /\ \E c \in Calls :
          /\ HasMessage(c)
          /\ response[c].kind = "sendMessage"
          /\ response[c].text.error.ok = FALSE
          /\ ~store[c]
          /\ requests[c] = << >>
    /\ \E c \in Calls : store[c] /\ requests[c] # << >>

\* C7 (save returns the confirmation text): the value of a successful save
\* is the ledger text with a success marker and a banner before it, not
\* the bare ledger text, and the handler replies with that value.
C7_SaveReturnsConfirmation ==
    \A c \in Calls :
        save_result[c].ok =>
            LET text   == save_result[c].val
                ledger == LedgerText(transaction[c])
            IN  /\ response[c].kind = "sendMessage"
                /\ response[c].text = text
                /\ Len(text) > Len(ledger)
                /\ SubSeq(text, Len(text) - Len(ledger) + 1, Len(text)) = ledger

(***************************************************************************)
(* The specification of the parser: Parser::parse applied to the lines     *)
(* made of a set of fields in every order of its groups.                   *)
(***************************************************************************)
\* the most spaces between two tokens of a line
MaxSpaces == 2

\* the fields a line is made of; None is a field the line leaves out
FieldSets ==
    [date : {None, Date2021}, payee : {KFC}, narration : {None, Hamburger},
     amount : {Amount1240, Amount337}, currency : {None, USD},
     from : {Cba, Abc, CbaUpper, Cba2}, to : {Food, Home, Cba2}]

\* the orders of the date, payee(+narration) and amount(+currency) groups
Orders ==
    {<<"date", "payee", "amount">>, <<"date", "amount", "payee">>,
     <<"payee", "date", "amount">>, <<"payee", "amount", "date">>,
     <<"amount", "date", "payee">>, <<"amount", "payee", "date">>}

\* the order of TRANSACTION_REGEX
RegexOrder == <<"date", "payee", "amount">>

\* the arrow between the two aliases, as the tests write it
Arrows == {<<" ", ">", " ">>, <<">">>, <<" ", ">">>, <<">", " ">>}

\* the tokens of one group of a line
GroupTokens(f, g) ==
    CASE g = "date" -> IF f.date = None THEN << >> ELSE <<f.date>>
      [] g = "payee" -> <<<<"@">> \o f.payee>>
                          \o (IF f.narration = None THEN << >> ELSE <<f.narration>>)
      [] g = "amount" -> <<f.amount>>
                          \o (IF f.currency = None THEN << >> ELSE <<f.currency>>)

\* the line of fields f with its groups in the given order, width spaces
\* between two tokens and the from > to group last
Render(f, order, width, arrow) ==
    JoinTokens(GroupTokens(f, order[1]) \o GroupTokens(f, order[2])
                 \o GroupTokens(f, order[3]) \o <<f.from \o arrow \o f.to>>,
               Spaces(width))

InitParse ==
    /\ settings \in SettingsSet
    /\ today \in Days
    /\ files = [p \in Paths |-> Absent]
    /\ pc = [c \in Calls |-> "handler"]
    /\ request = [c \in Calls |-> BadBody]
    /\ transaction = [c \in Calls |-> NoTransaction]
    /\ store = [c \in Calls |-> FALSE]
    /\ update_request = [c \in Calls |-> NoUpdateRequest]
    /\ requests = [c \in Calls |-> << >>]
    /\ save_result = [c \in Calls |-> NotRun]
    /\ response = [c \in Calls |-> NoResponse]
    /\ shape \in [fields : FieldSets, order : Orders, width : 1..MaxSpaces,
                  arrow : Arrows]
    /\ input = Render(shape.fields, shape.order, shape.width, shape.arrow)
    /\ result = NotRun

\* parser.parse(input)
RunParse ==
    /\ result = NotRun
    /\ result' = Parse(settings, input, today)
    /\ UNCHANGED <<settings, today, files, pc, request, transaction, store,
                   update_request, requests, save_result, response,
                   shape, input>>

NextParse == RunParse

SpecParse == InitParse /\ [][NextParse]_vars

(***************************************************************************)
(* Properties of the parser, checked under SpecParse.                      *)
(***************************************************************************)
\* the line of the fields of shape with its groups in the order of
\* TRANSACTION_REGEX, spaced as shape is
RegexLine == Render(shape.fields, RegexOrder, shape.width, shape.arrow)

\* the aliases of shape are made of the characters TRANSACTION_REGEX takes
\* for an account
PlainAliases ==
    \A a \in {shape.fields.from, shape.fields.to} :
        \A i \in DOMAIN a : a[i] \in AccountChar

\* C8 (order-independence of parse): when the fields parse in one order of
\* the date, payee(+narration) and amount(+currency) groups, they parse in
\* every order of the groups, to the same Transaction.
C8_OrderIndependence ==
    (result # NotRun /\ PlainAliases /\ Parse(settings, RegexLine, today).ok)
    => result = Parse(settings, RegexLine, today)

\* C9 (alias resolution totality): on a line that is well-formed but for
\* its aliases, aliases that are keys of settings.accounts give a
\* Transaction with exactly the mapped accounts, and an alias that is no
\* key gives the unknown-account error naming it, the from alias first.
C9_AliasResolutionTotality ==
    (result # NotRun /\ shape.order = RegexOrder) =>
        LET from == shape.fields.from
            to   == shape.fields.to
            keys == DOMAIN settings.accounts
        IN  IF from \notin keys THEN result = ParseAccount(settings, from)
            ELSE IF to \notin keys THEN result = ParseAccount(settings, to)
            ELSE /\ result.ok
                 /\ result.val.from_account = settings.accounts[from]
                 /\ result.val.to_account = settings.accounts[to]

\* C10 (default currency): a line without a currency token parses to a
\* Transaction whose currency is the currency of the Settings the parser
\* was built with.
C10_DefaultCurrency ==
    (result.ok /\ shape.order = RegexOrder /\ PlainAliases
       /\ shape.fields.currency = None)
    => result.val.currency = settings.currency

\* the tokens of the line of shape, the two aliases and the arrow apart
ShapeTokens ==
    GroupTokens(shape.fields, shape.order[1])
      \o GroupTokens(shape.fields, shape.order[2])
      \o GroupTokens(shape.fields, shape.order[3])
      \o <<shape.fields.from, <<">">>, shape.fields.to>>

\* the tokens toks with sep between the k-th and the next and one space
\* between the others
RECURSIVE JoinWide(_, _, _)
JoinWide(toks, k, sep) ==
    IF Len(toks) <= 1 THEN JoinTokens(toks, sep)
    ELSE toks[1] \o (IF k = 1 THEN sep ELSE Spaces(1))
           \o JoinWide(Tail(toks), k - 1, sep)

\* what the parser returns for the line of shape written with single
\* spaces
SingleSpaced == Parse(settings, Words(ShapeTokens), today)

\* C12 (whitespace independence): the parser returns for a line written
\* with several spaces between its tokens, and with the arrow unspaced on
\* either side, what it returns for the line written with single spaces;
\* so it does when one separator alone is written with several spaces.
C12_WhitespaceIndependence ==
    result # NotRun =>
        /\ result = SingleSpaced
        /\ (shape.width > 1 /\ shape.arrow = <<">">>) =>
              \A k \in 1..(Len(ShapeTokens) - 1) :
                  Parse(settings, JoinWide(ShapeTokens, k, Spaces(shape.width)),
                        today) = result

\* a line of all the fields, several spaces between its tokens and the
\* arrow unspaced, that parsed
C12_Witness ==
    /\ result.ok
    /\ PlainAliases
    /\ shape.width > 1
    /\ shape.arrow = <<">">>
    /\ shape.fields.date # None
    /\ shape.fields.narration # None
    /\ shape.fields.currency # None


(***************************************************************************)
(* The specification of the parser on lines that are not of the shape of   *)
(* TRANSACTION_REGEX: Parser::parse applied to lines with a narration of   *)
(* several words, an amount without a point or beyond f32, no amount, no   *)
(* arrow, a token twice, or text around the transaction.                   *)
(***************************************************************************)
\* the most words of a narration
MaxWords == 2

\* the words of the narration of the test parser_can_parse_multi_words_
\* narration
NarrationWords ==
    <<<<"b", "e", "e", "f">>, Hamburger, <<"a", "n", "d">>,
      <<"f", "r", "e", "n", "c", "h">>, <<"f", "r", "i", "e", "s">>>>

\* an amount without a point
Amount12 == <<"1", "2">>

\* an amount beyond f32::MAX: 1 and forty zeros
AmountHuge == <<"1">> \o [i \in 1..(F32MaxDigits + 1) |-> "0"] \o <<".", "0">>

Coles == <<"C", "o", "l", "e", "s">>

\* a word that is no part of a transaction
Note == <<"n", "o", "t", "e">>

\* what a line has besides one transaction
Extras ==
    {"none", "text before", "text after", "second date", "second payee",
     "second arrow"}

LineShapes ==
    [date : {None, Date2021}, words : 0..MaxWords,
     amount : {None, Amount1240, Amount12, AmountHuge},
     currency : {None, USD}, arrow : {"spaced", "unspaced", "none"},
     extra : Extras]

\* the tokens a line shape l stands for
LineTokens(l) ==
    (IF l.extra = "text before" THEN <<Note>> ELSE << >>)
      \o (IF l.date = None THEN << >> ELSE <<l.date>>)
      \o (IF l.extra = "second date" THEN <<Date2022>> ELSE << >>)
      \o <<<<"@">> \o KFC>>
      \o (IF l.extra = "second payee" THEN <<<<"@">> \o Coles>> ELSE << >>)
      \o SubSeq(NarrationWords, 1, l.words)
      \o (IF l.amount = None THEN << >> ELSE <<l.amount>>)
      \o (IF l.currency = None THEN << >> ELSE <<l.currency>>)
      \o (CASE l.arrow = "spaced" -> <<Cba, <<">">>, Food>>
            [] l.arrow = "unspaced" -> <<Cba \o <<">">> \o Food>>
            [] l.arrow = "none" -> <<Cba, Food>>)
      \o (IF l.extra = "second arrow" THEN <<<<">">>, Amex>> ELSE << >>)
      \o (IF l.extra = "text after" THEN <<Note>> ELSE << >>)

InitLines ==
    /\ settings = SettingsAud
    /\ today \in Days
    /\ files = [p \in Paths |-> Absent]
    /\ pc = [c \in Calls |-> "handler"]
    /\ request = [c \in Calls |-> BadBody]
    /\ transaction = [c \in Calls |-> NoTransaction]
    /\ store = [c \in Calls |-> FALSE]
    /\ update_request = [c \in Calls |-> NoUpdateRequest]
    /\ requests = [c \in Calls |-> << >>]
    /\ save_result = [c \in Calls |-> NotRun]
    /\ response = [c \in Calls |-> NoResponse]
    /\ shape \in LineShapes
    /\ input = Words(LineTokens(shape))
    /\ result = NotRun

SpecLines == InitLines /\ [][NextParse]_vars

(***************************************************************************)
(* Properties of the parser and the renderer, checked under SpecLines.     *)
(***************************************************************************)
\* x is a number written with exactly two decimals
TwoDecimals(x) ==
    /\ Len(x) >= 4
    /\ x[Len(x) - 2] = "."
    /\ \A i \in (1..Len(x)) \ {Len(x) - 2} : x[i] \in Digit

\* the header line of the ledger text of t
HeaderLine(t) ==
    t.date \o <<" ", "*", " ", "\"">> \o t.payee \o <<"\"", " ", "\"">>
      \o t.narration \o <<"\"", "\n">>

\* a posting line: two spaces, the account, eight spaces, the amount, the
\* currency
PostingLine(account, shown, currency) ==
    Spaces(2) \o account \o Spaces(8) \o shown \o <<" ">> \o currency
      \o <<"\n">>

\* text is the ledger text of t with the amount shown as x
RendersAs(text, t, x) ==
    /\ TwoDecimals(x)
    /\ text = HeaderLine(t)
                \o PostingLine(t.from_account, <<"-">> \o x, t.currency)
                \o PostingLine(t.to_account, x, t.currency)

\* the texts that end where the amount of the last posting of text ends
AmountsShown(text, t) ==
    {SubSeq(text, i, Len(text) - Len(t.currency) - 2) :
        i \in 1..(Len(text) - Len(t.currency) - 2)}

\* C11 (ledger text format): the ledger text of every parsed Transaction
\* is the header line and two posting lines, from_account with the amount
\* negated, then to_account with the same amount, both with exactly two
\* decimals and the same currency.
C11_LedgerTextFormat ==
    result.ok =>
        \E x \in AmountsShown(LedgerText(result.val), result.val) :
            RendersAs(LedgerText(result.val), result.val, x)

\* the error of Parser::parse for a line TRANSACTION_REGEX does not match
InvalidFormat == Err("Invalid input format, please follow examples here", << >>)

\* C13 (missing amount or arrow): a line without an amount token or
\* without an arrow never parses to a Transaction: the parser returns its
\* invalid-format error; so it does for "I am testing here".
C13_MissingAmountOrArrow ==
    /\ Parse(settings, TextInvalid, today) = InvalidFormat
    /\ (result # NotRun /\ (shape.amount = None \/ shape.arrow = "none"))
          => result = InvalidFormat

\* a line that is a transaction but for its arrow, and was rejected
C13_Witness ==
    /\ result = InvalidFormat
    /\ shape.extra = "none"
    /\ shape.amount = Amount1240
    /\ shape.arrow = "none"

\* the line of shape has two date tokens, two payee tokens or two arrows
TokenTwice ==
    \/ shape.extra = "second date" /\ shape.date # None
    \/ shape.extra = "second payee"
    \/ shape.extra = "second arrow" /\ shape.arrow # "none"

\* C14 (a token twice is malformed): a line with more than one date token,
\* more than one payee token or more than one arrow never parses to a
\* Transaction, also when a part of the line is a well-formed transaction.
C14_TokenTwiceRejected ==
    (result # NotRun /\ TokenTwice) => ~result.ok

\* the line of shape is a transaction of the shape of TRANSACTION_REGEX
\* but for its amount
RegexShaped ==
    shape.extra = "none" /\ shape.arrow # "none" /\ shape.words <= 1

\* C15 (whole-number amount): a line whose amount is written without a
\* point, as 12, parses to a Transaction with that amount, rendered with
\* two decimals as 12.00.
C15_WholeNumberAmount ==
    (result # NotRun /\ RegexShaped /\ shape.amount = Amount12) =>
        /\ result.ok
        /\ result.val.amount = [num |-> 12, scale |-> 0]
        /\ Fmt2(result.val.amount) = <<"1", "2", ".", "0", "0">>

\* C16 (narration of several words): a line with n words between the payee
\* and the amount parses to a Transaction whose narration is the n words
\* in their order, joined with single spaces; the empty string when n = 0.
C16_NarrationKeptWhole ==
    (result # NotRun /\ shape.extra = "none" /\ shape.arrow # "none"
       /\ shape.amount = Amount1240) =>
        /\ result.ok
        /\ result.val.narration = Words(SubSeq(NarrationWords, 1, shape.words))

(***************************************************************************)
(* Properties of concurrent saves and of failed saves, checked under Spec. *)
(***************************************************************************)
\* s is the beginning of t
IsPrefix(s, t) == Len(s) <= Len(t) /\ SubSeq(t, 1, Len(s)) = s

\* the positions in content at which text stands
Occurrences(text, content) ==
    {i \in 1..(Len(content) - Len(text) + 1) :
        SubSeq(content, i, i + Len(text) - 1) = text}

\* the saves that returned success for the transaction and the file of
\* call c
SavedLike(c) ==
    {d \in Calls : /\ save_result[d].ok
                   /\ transaction[d] = transaction[c]}

\* the file holds the ledger text of every save that returned success,
\* once for each such save
ContainsSaved ==
    \A c \in Calls :
        save_result[c].ok =>
            LET f == files[PathOf(transaction[c])]
            IN  /\ f.exists
                /\ Cardinality(Occurrences(LedgerText(transaction[c]),
                                           f.content))
                     >= Cardinality(SavedLike(c))

\* a step keeps every file, and the content a file held is the beginning
\* of the content it holds after the step
GrowsByPrefix ==
    \A p \in Paths :
        files[p].exists =>
            /\ files'[p].exists
            /\ IsPrefix(files[p].content, files'[p].content)

\* of the saves of one file whose PUT carried the same version tag, at most
\* one returned success
OneSuccessPerTag ==
    \A c, d \in Calls :
        (/\ c # d
         /\ save_result[c].ok
         /\ save_result[d].ok
         /\ LastExchange(c).path = LastExchange(d).path)
        => LastExchange(c).sha # LastExchange(d).sha

\* C17 (no lost update under concurrency): for every interleaving of the
\* requests of the saves, the file holds at every moment the ledger text of
\* every save that returned success, each earlier content of a file is a
\* prefix of every later content, and of the saves that read the same
\* version tag of a file at most one returns success.
C17_NoLostUpdate ==
    /\ [](ContainsSaved /\ OneSuccessPerTag)
    /\ [][GrowsByPrefix]_vars

\* call c sends a request to the remote store in this step
Sends(c) == requests'[c] # requests[c]

\* the step of call c, a save for the year of its transaction, changes no
\* file of another year; the file of that year it changes only by a CREATE
\* that makes the absent file an empty file, or by the PUT of a save that
\* returns success
FrameOf(c) ==
    LET path == PathOf(transaction[c])
        sent == requests'[c][Len(requests'[c])]
    IN  /\ \A p \in Paths \ {path} : files'[p] = files[p]
        /\ files'[path] # files[path] =>
              \/ /\ sent.op = "CREATE"
                 /\ ~files[path].exists
                 /\ files'[path] = File(<< >>)
              \/ /\ sent.op = "PUT"
                 /\ save_result'[c].ok

\* a step changes the files only by the request of one call
FrameStep ==
    /\ (\A c \in Calls : ~Sends(c)) => files' = files
    /\ \A c \in Calls : Sends(c) => FrameOf(c)

\* C18 (frame of a save): a save that returns an error changes the content
\* of no file that existed before the call, a save for year Y never changes
\* the file of another year, and the only effect a failed save leaves in the
\* remote store is a newly created empty file of year Y.
C18_FailedSaveFrame == [][FrameStep]_vars

\* a save that found no file, created it and then failed at the PUT: the
\* empty file stays, the file of the other year is as it was
C18_Witness ==
    \E c \in Calls :
        /\ SaveFailed(c)
        /\ Len(requests[c]) = 4
        /\ requests[c][2].op = "CREATE"
        /\ requests[c][2].status = "201"
        /\ LastExchange(c).op = "PUT"
        /\ files[PathOf(transaction[c])] = File(<< >>)
        /\ \E p \in Paths \ {PathOf(transaction[c])} : files[p].exists

=============================================================================
